---- MODULE Spec2Model ----
(***************************************************************************)
(* k8socks: one session of the `deploy` command.                           *)
(*                                                                         *)
(* The model follows crates/k8socks-cli/src/main.rs: the main task, the    *)
(* ctrl-c task it spawns, the port-forward task spawned by                 *)
(* K8sServiceImpl::port_forward, the ssh subprocess started by             *)
(* SshServiceImpl::start_socks_proxy and the two drain tasks spawned by    *)
(* SshServiceImpl::watch.  The tokio runtime is multi-threaded, so every   *)
(* task advances independently between its await points.                  *)
(***************************************************************************)
EXTENDS Integers, Sequences, FiniteSets, TLC

\* ---------------------------------------------------------------- bounds
\* number of OS interrupts (SIGINT) the environment may deliver
MaxInterrupts == 1
\* the OS hands out ephemeral ports 1..MaxPort for a bind on port 0
MaxPort == 1
\* chunks of data the environment sends through the tunnel
MaxChunks == 1
\* lines the ssh subprocess writes, both streams together
MaxLines == 1
\* fields of Config taken into account when layers are merged
MaxFields == 3
\* distinct keys a pod_labels map may hold
MaxLabels == 2
\* leading draws of generate_pod_name that range over every value of the
\* random source; the later ones take its smallest or its largest value
MaxFreeDraws == 2

\* ------------------------------------------------------ program constants
\* main.rs:132  k8s_service.port_forward(&pod_ref, 0)
RequestedLocalPort == 0
\* exit status of a subprocess that terminated successfully
ExitStatusSuccess == 0

EphemeralPorts == 1..MaxPort
ExitStatuses == {ExitStatusSuccess, 1}
\* ssh lib.rs:41-42  the two piped output streams of the subprocess
Streams == {"stdout", "stderr"}
\* ssh lib.rs:71, 77  outcome of next_line() when a line is waiting: the
\* line (Ok(Some)), or an Err (bytes that are not UTF-8, an I/O error)
ReadOutcomes == {"line", "err"}

VARIABLES
    dryRun,         \* cli.dry_run
    cfgSeen,        \* the config file the loader opened: "none" (not run),
                    \* "unreadable", "unparsable", or "usable" (valid or absent)
    configResult,   \* "none" | "Ok" | "Io" | "Parse": result of load_from_paths
    keyRead,        \* "none" | "ok" | "failed": outcome of reading the public key
    createRequests, \* create requests submitted to the cluster
    mainPc,         \* position of the main task
    mainResult,     \* "none" | "Ok" | "Err": what main returned
    mainErr,        \* which operation's error main propagated ("none" if none)
    procState,      \* "running" | "exited" | "killed" (default SIGINT action)
                    \* | "panicked" (the main thread panicked)
    pod,            \* the workload in the cluster: "absent" | "present" | "deleted"
    waitCond,       \* how the bounded readiness wait ended ("none" = not run)
    callLog,        \* operations called by the main task, in order, with outcome
    deleteLog,      \* delete_pod calls, in order: who issued it and when
    deleteFailed,   \* set of callers whose delete_pod returned an error
    deleteReturned, \* set of callers whose delete_pod call has returned
    chanLen,        \* messages buffered in the mpsc channel (capacity 1)
    txAlive,        \* the channel's only Sender has not been dropped
    sendCalled,     \* the ctrl-c task executed tx.send(())
    ctrlcPc,        \* position of the ctrl-c task
    interrupts,     \* interrupts delivered so far that had an effect
    sigPending,     \* an interrupt was delivered to the registered listener
    pfTaskPc,       \* position of the port-forward background task
    listenerPort,   \* port the tunnel's listener is bound to (0 = not bound)
    pfLocalPort,    \* PortForwardHandle.local_port (-1 = no handle)
    listenerOpen,   \* the tunnel's TcpListener exists
    pfAccepted,     \* connections the tunnel task accepted
    pfRelayed,      \* chunks the tunnel task relayed
    sshState,       \* "none" | "running" | "exited"
    sshStatus,      \* exit status of the ssh subprocess (-1 = not exited)
    sshArgPort,     \* the -p argument given to ssh (-1 = not spawned)
    sshHandle,      \* SshProcessHandle: "none" | "held" | "dropped"
    killRequested,  \* a termination request was sent to the subprocess
    pipe,           \* per stream: lines written by the subprocess, not yet read
    written,        \* per stream: lines the subprocess has written
    logged,         \* per stream: lines handed to the logging sink
    sinkLevels,     \* <<stream, level>> pairs seen by the logging sink
    watchPc,        \* position inside SshServiceImpl::watch
    watchResult,    \* "none" | "Ok" | "UnexpectedExit"
    stdoutTask,     \* drain task of the subprocess's stdout
    stderrTask,     \* drain task of the subprocess's stderr
    \* --- config layering (main.rs:65-82), checked on its own under SpecMerge
    baseConfig,     \* the Config the layers are merged onto
    fileConfig,     \* the Config load_from_paths returned
    cliConfig,      \* the Config built from the command line flags
    config,         \* `config` in main: the layers merged so far
    mergePc,        \* "idle" | "defaults" | "file_merged" | "cli_merged"
    \* --- build_pod_manifest (k8s lib.rs:70-117), under SpecManifest
    mConfig,        \* the Config given to build_pod_manifest
    mName,          \* its name argument
    mKey,           \* its ssh_key_base64 argument
    built,          \* the calls made so far: map iteration orders and result
    \* --- generate_pod_name (k8s lib.rs:64-68), under SpecName
    draws,          \* values drawn from the random source so far
    randomHex,      \* the characters collected into random_hex
    podName         \* the returned name (<<>> = not returned yet)

mainVars == <<dryRun, cfgSeen, configResult, keyRead, createRequests, mainPc,
          mainResult, mainErr, procState, pod, waitCond,
          callLog, deleteLog, deleteFailed, deleteReturned,
          chanLen, txAlive, sendCalled,
          ctrlcPc, interrupts, sigPending, pfTaskPc, listenerPort, pfLocalPort,
          listenerOpen, pfAccepted, pfRelayed,
          sshState, sshStatus, sshArgPort, sshHandle, killRequested,
          pipe, written, logged, sinkLevels, watchPc, watchResult,
          stdoutTask, stderrTask>>

mergeVars    == <<baseConfig, fileConfig, cliConfig, config, mergePc>>
manifestVars == <<mConfig, mName, mKey, built>>
nameVars     == <<draws, randomHex, podName>>
unitVars     == <<mergeVars, manifestVars, nameVars>>

vars == <<mainVars, unitVars>>

clusterVars == <<pod, waitCond>>
cfgVars     == <<cfgSeen, configResult>>
deployVars  == <<keyRead, createRequests>>
chanVars    == <<chanLen, txAlive, sendCalled>>
sigVars     == <<interrupts, sigPending>>
pfVars      == <<pfTaskPc, listenerPort, pfLocalPort>>
tunnelVars  == <<listenerOpen, pfAccepted, pfRelayed>>
sshVars     == <<sshState, sshStatus, sshArgPort>>
handleVars  == <<sshHandle, killRequested>>
ioVars      == <<pipe, written, logged, sinkLevels>>
watchVars   == <<watchPc, watchResult, stdoutTask, stderrTask>>

\* Option<T>: None, or Some(x)
None == <<>>
Some(x) == <<x>>

\* nothing merged, built or generated yet
MergeIdle ==
    /\ baseConfig = None /\ fileConfig = None /\ cliConfig = None
    /\ config = None /\ mergePc = "idle"
ManifestIdle ==
    mConfig = None /\ mName = None /\ mKey = None /\ built = <<>>
NameIdle ==
    draws = 0 /\ randomHex = <<>> /\ podName = <<>>

InitMain ==
    /\ dryRun \in BOOLEAN
    /\ cfgSeen = "none"
    /\ configResult = "none"
    /\ keyRead = "none"
    /\ createRequests = 0
    /\ mainPc = "load_config"
    /\ mainResult = "none"
    /\ mainErr = "none"
    /\ procState = "running"
    /\ pod = "absent"
    /\ waitCond = "none"
    /\ callLog = <<>>
    /\ deleteLog = <<>>
    /\ deleteFailed = {}
    /\ deleteReturned = {}
    /\ chanLen = 0
    /\ txAlive = FALSE
    /\ sendCalled = FALSE
    /\ ctrlcPc = "unspawned"
    /\ interrupts = 0
    /\ sigPending = FALSE
    /\ pfTaskPc = "unspawned"
    /\ listenerPort = 0
    /\ pfLocalPort = -1
    /\ listenerOpen = FALSE
    /\ pfAccepted = 0
    /\ pfRelayed = 0
    /\ sshState = "none"
    /\ sshStatus = -1
    /\ sshArgPort = -1
    /\ sshHandle = "none"
    /\ killRequested = FALSE
    /\ pipe = [s \in Streams |-> 0]
    /\ written = [s \in Streams |-> 0]
    /\ logged = [s \in Streams |-> 0]
    /\ sinkLevels = {}
    /\ watchPc = "none"
    /\ watchResult = "none"
    /\ stdoutTask = "unspawned"
    /\ stderrTask = "unspawned"

Init == InitMain /\ MergeIdle /\ ManifestIdle /\ NameIdle

\* ------------------------------------------------------------ helpers

Logged(op, ok) == Append(callLog, [op |-> op, ok |-> ok])

\* `expr?` in main: an Err is returned from main at once, an Ok continues.
PropagateMut(ok, next) == next
Propagate(ok, next) == IF ok THEN next ELSE "returned"

\* main continues at `next` after `op` returned; on failure main returns Err.
MainStep(op, ok, next) ==
    /\ mainPc' = Propagate(ok, next)
    /\ mainResult' = IF Propagate(ok, next) = "returned" THEN "Err" ELSE mainResult
    /\ mainErr' = IF Propagate(ok, next) = "returned" THEN op ELSE mainErr
    /\ callLog' = Logged(op, ok)

Running == procState = "running"


\* a spawned task that has not finished is dropped when the runtime shuts down
CancelTask(pc) ==
    IF pc \in {"unspawned", "done", "panicked"} THEN pc ELSE "cancelled"

CancelAllTasks ==
    /\ listenerOpen' = FALSE
    /\ ctrlcPc' = CancelTask(ctrlcPc)
    /\ pfTaskPc' = CancelTask(pfTaskPc)
    /\ stdoutTask' = CancelTask(stdoutTask)
    /\ stderrTask' = CancelTask(stderrTask)

\* tokio mpsc Receiver::try_recv on a channel with `len` buffered messages
TryRecv(len, alive) ==
    IF len > 0 THEN "Ok" ELSE IF alive THEN "Empty" ELSE "Disconnected"

\* main.rs:152  `if rx.try_recv().is_err()`
NeedsFinalCleanupMut(r) == FALSE
NeedsFinalCleanup(r) == r # "Ok"

\* ssh lib.rs:88-94  status.success() -> Ok(()), otherwise UnexpectedExit
WatchStatusResultMut(status) == "Ok"
WatchStatusResult(status) ==
    IF status = ExitStatusSuccess THEN "Ok" ELSE "UnexpectedExit"

\* traits ssh/mod.rs:14-17 and ssh lib.rs:29-48: SshProcessHandle is a plain
\* struct around tokio's Child, built without kill_on_drop and without a Drop
\* impl, so destroying it sends nothing to the subprocess
HandleDropKills == FALSE

\* ssh lib.rs:85-86  `task.await`: completes once the drain task has finished
TaskJoinedMut(task) == TRUE
TaskJoined(task) == task = "done"

\* ssh lib.rs:72, 78  info! for stdout lines, warn! for stderr lines
LogLevelMut(s) == "info"
LogLevel(s) == IF s = "stdout" THEN "info" ELSE "warn"

\* ssh lib.rs:71, 77  `while let Ok(Some(line)) = reader.next_line().await`:
\* the loop goes on only after a successful read of a line
LoopContinues(outcome) == outcome = "line"

\* k8s lib.rs:174-177  the handle carries the port the caller asked for
HandleLocalPort(requested, bound) == requested

\* main.rs:154-159  a failed delete is logged; main then returns Ok(())
MainResultAfterDeleteMut(ok) == IF ok THEN "Ok" ELSE "Err"
MainResultAfterDelete(ok) == "Ok"

\* main.rs:124-127  a failed delete is logged; the task goes on to tx.send
CtrlcAfterDeleteMut(ok) == IF ok THEN "sending" ELSE "done"
CtrlcAfterDelete(ok) == "sending"

\* main.rs:122-124  once ctrl_c() completed the task calls delete_pod and
\* awaits it; tx.send comes after
CtrlcAfterSignalMut == "sending"
CtrlcAfterSignal == "deleting"

\* main.rs:100-109  with cli.dry_run main returns Ok(()) here; otherwise it
\* goes on to K8sServiceImpl::new
DryRunNextMut(dry) == "k8s_new"
DryRunNext(dry) == IF dry THEN "returned" ELSE "k8s_new"

\* effect of one delete request on the workload (k8s lib.rs:180-184)
PodAfterDelete(ok) == IF ok THEN "deleted" ELSE pod

\* ------------------------------------------------------------ configuration

\* config lib.rs:16-19  paths_to_check: the home file, then ./config.json
NumConfigPaths == 2

\* what the loader finds at one path
FileStates == {"missing", "unreadable", "unparsable", "valid"}

\* config lib.rs:23-24  a file that exists and fails in read_to_string or in
\* serde_json::from_str
BrokenFiles == {"unreadable", "unparsable"}

\* config lib.rs:21-27  the first path that exists is the one opened
RECURSIVE FirstExisting(_)
FirstExisting(files) ==
    IF files = <<>> THEN "missing"
    ELSE IF Head(files) # "missing" THEN Head(files)
    ELSE FirstExisting(Tail(files))

\* config lib.rs:9-36  load_from_paths: read and parse the first existing
\* file, `?` on either error; an all-None config when no file exists
RECURSIVE LoadFromPathsMut(_)
LoadFromPathsMut(files) ==
    IF files = <<>> THEN "Ok"
    ELSE IF Head(files) = "valid" THEN "Ok"
    ELSE LoadFromPathsMut(Tail(files))
RECURSIVE LoadFromPaths(_)
LoadFromPaths(files) ==
    IF files = <<>> THEN "Ok"
    ELSE IF Head(files) = "missing" THEN LoadFromPaths(Tail(files))
    ELSE IF Head(files) = "unreadable" THEN "Io"
    ELSE IF Head(files) = "unparsable" THEN "Parse"
    ELSE "Ok"

\* k8s lib.rs:137-142  the create request is submitted only after the key
\* file was read (`?` on the read error)
CreateSubmittedMut(keyOk) == TRUE
CreateSubmitted(keyOk) == keyOk

\* ------------------------------------------------------------ main task

\* main.rs:65 and config lib.rs:9-36  ConfigServiceImpl::load_from_paths()?
LoadConfig ==
    /\ Running /\ mainPc = "load_config"
    /\ \E files \in [1..NumConfigPaths -> FileStates] :
         /\ MainStep("load_config", LoadFromPaths(files) = "Ok", "init_logging")
         /\ cfgSeen' = IF FirstExisting(files) \in BrokenFiles
                       THEN FirstExisting(files) ELSE "usable"
         /\ configResult' = LoadFromPaths(files)
    /\ UNCHANGED <<unitVars, dryRun, handleVars, ioVars, deployVars, tunnelVars,
                   procState, clusterVars, deleteLog, deleteFailed,
                   deleteReturned, chanVars, ctrlcPc, sigVars, pfVars, sshVars,
                   watchVars>>

\* main.rs:86-87  LoggingServiceImpl::init_logging(..)?
InitLogging ==
    /\ Running /\ mainPc = "init_logging"
    /\ \E ok \in BOOLEAN : MainStep("init_logging", ok, "expand_paths")
    /\ UNCHANGED <<unitVars, dryRun, handleVars, ioVars, cfgVars, deployVars,
                   tunnelVars, procState, clusterVars, deleteLog, deleteFailed,
                   deleteReturned, chanVars, ctrlcPc, sigVars, pfVars, sshVars,
                   watchVars>>

\* config lib.rs:38-47  expand_tilde: a path that does not start with "~" is
\* returned as it is; one that does needs the home directory, and the result
\* is None when BaseDirs::new() finds none
ExpandTilde(tilde, home) == IF ~tilde THEN "Some" ELSE IF home THEN "Some" ELSE "None"

\* main.rs:91-96  expand_tilde(&path).unwrap() on the kubeconfig and key
\* paths: the main thread panics on None and the process aborts
ExpandPaths ==
    /\ Running /\ mainPc = "expand_paths"
    /\ \E tilde \in BOOLEAN, home \in BOOLEAN :
         IF ExpandTilde(tilde, home) = "Some"
         THEN /\ mainPc' = "dry_run_check"
              /\ UNCHANGED procState
         ELSE /\ procState' = "panicked"
              /\ UNCHANGED mainPc
    /\ UNCHANGED <<unitVars, dryRun, handleVars, ioVars, cfgVars, deployVars,
                   tunnelVars, mainResult, mainErr, clusterVars, callLog,
                   deleteLog, deleteFailed, deleteReturned, chanVars, ctrlcPc,
                   sigVars, pfVars, sshVars, watchVars>>

\* main.rs:100-109  if cli.dry_run { ...; return Ok(()) }
DryRunCheck ==
    /\ Running /\ mainPc = "dry_run_check"
    /\ mainPc' = DryRunNext(dryRun)
    /\ mainResult' = IF DryRunNext(dryRun) = "returned" THEN "Ok" ELSE mainResult
    /\ UNCHANGED <<unitVars, dryRun, handleVars, ioVars, cfgVars, deployVars,
                   tunnelVars, mainErr, procState, clusterVars, callLog,
                   deleteLog, deleteFailed, deleteReturned, chanVars, ctrlcPc,
                   sigVars, pfVars, sshVars, watchVars>>

\* main.rs:113  K8sServiceImpl::new(&config).await?
K8sNew ==
    /\ Running /\ mainPc = "k8s_new"
    /\ \E ok \in BOOLEAN : MainStep("k8s_new", ok, "deploy_pod")
    /\ UNCHANGED <<unitVars, dryRun, handleVars, ioVars, cfgVars, deployVars,
                   tunnelVars, procState, clusterVars, deleteLog, deleteFailed,
                   deleteReturned, chanVars, ctrlcPc, sigVars, pfVars, sshVars,
                   watchVars>>

\* main.rs:165 and k8s lib.rs:130-148: read the key, then create the pod
DeployPod ==
    /\ Running /\ mainPc = "deploy_pod"
    /\ \E keyOk \in BOOLEAN, createOk \in BOOLEAN :
         /\ keyRead' = IF keyOk THEN "ok" ELSE "failed"
         /\ createRequests' = IF CreateSubmitted(keyOk)
                                THEN createRequests + 1 ELSE createRequests
         /\ MainStep("deploy_pod", keyOk /\ CreateSubmitted(keyOk) /\ createOk,
                     "wait_for_pod_ready")
         /\ pod' = IF CreateSubmitted(keyOk) /\ createOk THEN "present" ELSE pod
    /\ UNCHANGED <<unitVars, dryRun, handleVars, ioVars, cfgVars, tunnelVars,
                   procState, waitCond, deleteLog, deleteFailed, deleteReturned,
                   chanVars, ctrlcPc, sigVars, pfVars, sshVars, watchVars>>

\* main.rs:167 and k8s lib.rs:150-157: the bounded wait, then api.get
WaitForPodReady ==
    /\ Running /\ mainPc = "wait_for_pod_ready"
    /\ \E cond \in {"timeout", "running", "error"}, getOk \in BOOLEAN :
         /\ MainStep("wait_for_pod_ready", cond # "timeout" /\ getOk, "spawn_ctrlc")
         /\ waitCond' = cond
    /\ UNCHANGED <<unitVars, dryRun, handleVars, ioVars, cfgVars, deployVars,
                   tunnelVars, procState, pod, deleteLog, deleteFailed,
                   deleteReturned, chanVars, ctrlcPc, sigVars, pfVars, sshVars,
                   watchVars>>

\* main.rs:117-128  channel(1) and tokio::spawn of the ctrl-c task
SpawnCtrlc ==
    /\ Running /\ mainPc = "spawn_ctrlc"
    /\ chanLen' = 0
    /\ txAlive' = TRUE
    /\ sendCalled' = FALSE
    /\ ctrlcPc' = "spawned"
    /\ mainPc' = "port_forward"
    /\ UNCHANGED <<unitVars, dryRun, handleVars, ioVars, cfgVars, deployVars,
                   tunnelVars, mainResult, mainErr, procState, clusterVars,
                   callLog, deleteLog, deleteFailed, deleteReturned, sigVars,
                   pfVars, sshVars, watchVars>>

\* main.rs:132 and k8s lib.rs:159-178: establish the stream, spawn the
\* background task, return the handle without waiting for the task
PortForward ==
    /\ Running /\ mainPc = "port_forward"
    /\ \E ok \in BOOLEAN :
         /\ MainStep("port_forward", ok, "start_socks_proxy")
         /\ pfTaskPc' = IF ok THEN "spawned" ELSE pfTaskPc
         /\ pfLocalPort' = IF ok THEN HandleLocalPort(RequestedLocalPort, listenerPort)
                                 ELSE pfLocalPort
    /\ UNCHANGED <<unitVars, dryRun, handleVars, ioVars, cfgVars, deployVars,
                   tunnelVars, procState, clusterVars, deleteLog, deleteFailed,
                   deleteReturned, chanVars, ctrlcPc, sigVars, listenerPort,
                   sshVars, watchVars>>

\* main.rs:135 and ssh lib.rs:22-49: spawn `ssh ... -p <forwarded_ssh_port>`
StartSocksProxy ==
    /\ Running /\ mainPc = "start_socks_proxy"
    /\ \E ok \in BOOLEAN :
         /\ MainStep("start_socks_proxy", ok, "enter_select")
         /\ sshState' = IF ok THEN "running" ELSE sshState
         /\ sshArgPort' = IF ok THEN pfLocalPort ELSE sshArgPort
         /\ sshHandle' = IF ok THEN "held" ELSE sshHandle
    /\ UNCHANGED <<unitVars, dryRun, killRequested, ioVars, cfgVars, deployVars,
                   tunnelVars, procState, clusterVars, deleteLog, deleteFailed,
                   deleteReturned, chanVars, ctrlcPc, sigVars, pfVars,
                   sshStatus, watchVars>>

\* main.rs:140-146  select! creates the watch future and the recv future
EnterSelect ==
    /\ Running /\ mainPc = "enter_select"
    /\ mainPc' = "select"
    /\ watchPc' = "created"
    /\ callLog' = Logged("watch", TRUE)
    /\ UNCHANGED <<unitVars, dryRun, handleVars, ioVars, cfgVars, deployVars,
                   tunnelVars, mainResult, mainErr, procState, clusterVars,
                   deleteLog, deleteFailed, deleteReturned, chanVars, ctrlcPc,
                   sigVars, pfVars, sshVars, watchResult, stdoutTask,
                   stderrTask>>

\* ssh lib.rs:52-82  first poll of watch: spawn both drain tasks, wait for exit
WatchStart ==
    /\ Running /\ mainPc = "select" /\ watchPc = "created"
    /\ watchPc' = "wait_child"
    /\ stdoutTask' = "running"
    /\ stderrTask' = "running"
    /\ UNCHANGED <<unitVars, dryRun, handleVars, ioVars, cfgVars, deployVars,
                   tunnelVars, mainPc, mainResult, mainErr, procState,
                   clusterVars, callLog, deleteLog, deleteFailed,
                   deleteReturned, chanVars, ctrlcPc, sigVars, pfVars, sshVars,
                   watchResult>>

\* ssh lib.rs:82  child.wait().await completes once the subprocess exited
WatchChildExited ==
    /\ Running /\ mainPc = "select" /\ watchPc = "wait_child"
    /\ sshState = "exited"
    /\ watchPc' = "join_stdout"
    /\ UNCHANGED <<unitVars, dryRun, handleVars, ioVars, cfgVars, deployVars,
                   tunnelVars, mainPc, mainResult, mainErr, procState,
                   clusterVars, callLog, deleteLog, deleteFailed,
                   deleteReturned, chanVars, ctrlcPc, sigVars, pfVars, sshVars,
                   watchResult, stdoutTask, stderrTask>>

\* ssh lib.rs:85  stdout_task.await.ok()
WatchJoinStdout ==
    /\ Running /\ mainPc = "select" /\ watchPc = "join_stdout"
    /\ TaskJoined(stdoutTask)
    /\ watchPc' = "join_stderr"
    /\ UNCHANGED <<unitVars, dryRun, handleVars, ioVars, cfgVars, deployVars,
                   tunnelVars, mainPc, mainResult, mainErr, procState,
                   clusterVars, callLog, deleteLog, deleteFailed,
                   deleteReturned, chanVars, ctrlcPc, sigVars, pfVars, sshVars,
                   watchResult, stdoutTask, stderrTask>>

\* ssh lib.rs:86-94 and main.rs:141-145: stderr_task joined, watch returns
\* (its `child` is dropped), the select takes the watch branch (an Err is
\* logged, not propagated)
WatchReturn ==
    /\ Running /\ mainPc = "select" /\ watchPc = "join_stderr"
    /\ TaskJoined(stderrTask)
    /\ watchPc' = "returned"
    /\ watchResult' = WatchStatusResult(sshStatus)
    /\ mainPc' = "final_cleanup"
    /\ sshHandle' = "dropped"
    /\ killRequested' = (killRequested \/ HandleDropKills)
    /\ UNCHANGED <<unitVars, dryRun, ioVars, cfgVars, deployVars, tunnelVars,
                   mainResult, mainErr, procState, clusterVars, callLog,
                   deleteLog, deleteFailed, deleteReturned, chanVars, ctrlcPc,
                   sigVars, pfVars, sshVars, stdoutTask, stderrTask>>

\* main.rs:146-148  rx.recv() completes with the message, or with None once
\* the sender is dropped; the pending watch future, which owns the
\* SshProcessHandle, is dropped
SelectRecv ==
    /\ Running /\ mainPc = "select"
    /\ chanLen > 0 \/ ~txAlive
    /\ chanLen' = 0
    /\ watchPc' = "dropped"
    /\ mainPc' = "final_cleanup"
    /\ sshHandle' = "dropped"
    /\ killRequested' = (killRequested \/ HandleDropKills)
    /\ UNCHANGED <<unitVars, dryRun, ioVars, cfgVars, deployVars, tunnelVars,
                   mainResult, mainErr, procState, clusterVars, callLog,
                   deleteLog, deleteFailed, deleteReturned, txAlive, sendCalled,
                   ctrlcPc, sigVars, pfVars, sshVars, watchResult, stdoutTask,
                   stderrTask>>

\* main.rs:152-154  the final check and, if it says so, the delete_pod call
FinalCleanup ==
    /\ Running /\ mainPc = "final_cleanup"
    /\ IF NeedsFinalCleanup(TryRecv(chanLen, txAlive))
       THEN /\ deleteLog' = Append(deleteLog,
                   [by |-> "main", afterWatch |-> watchResult # "none"])
            /\ mainPc' = "main_delete"
            /\ UNCHANGED <<mainResult, chanLen>>
       ELSE /\ chanLen' = 0
            /\ mainPc' = "returned"
            /\ mainResult' = "Ok"
            /\ UNCHANGED deleteLog
    /\ UNCHANGED <<unitVars, dryRun, handleVars, ioVars, cfgVars, deployVars,
                   tunnelVars, mainErr, procState, clusterVars, callLog,
                   deleteFailed, deleteReturned, txAlive, sendCalled, ctrlcPc,
                   sigVars, pfVars, sshVars, watchVars>>

\* main.rs:154-159  delete_pod returns; main returns Ok(())
MainDeleteReturn ==
    /\ Running /\ mainPc = "main_delete"
    /\ \E ok \in BOOLEAN :
         /\ pod' = PodAfterDelete(ok)
         /\ deleteFailed' = IF ok THEN deleteFailed ELSE deleteFailed \cup {"main"}
         /\ deleteReturned' = deleteReturned \cup {"main"}
         /\ mainResult' = MainResultAfterDelete(ok)
         /\ mainErr' = IF MainResultAfterDelete(ok) = "Ok" THEN mainErr ELSE "delete_pod"
    /\ mainPc' = "returned"
    /\ UNCHANGED <<unitVars, dryRun, handleVars, ioVars, cfgVars, deployVars,
                   tunnelVars, procState, waitCond, callLog, deleteLog,
                   chanVars, ctrlcPc, sigVars, pfVars, sshVars, watchVars>>

\* main returned: the runtime shuts down, dropping every unfinished task,
\* and the process exits
ProcessExit ==
    /\ Running /\ mainPc = "returned"
    /\ procState' = "exited"
    /\ CancelAllTasks
    /\ UNCHANGED <<unitVars, dryRun, handleVars, ioVars, cfgVars, deployVars,
                   pfAccepted, pfRelayed, mainPc, mainResult, mainErr,
                   clusterVars, callLog, deleteLog, deleteFailed,
                   deleteReturned, chanVars, sigVars, listenerPort, pfLocalPort,
                   sshVars, watchPc, watchResult>>

\* ------------------------------------------------------------ ctrl-c task

\* main.rs:122  first poll of signal::ctrl_c(): the SIGINT listener is
\* registered; if that fails, `expect` panics and the task (with tx) is gone
CtrlcRegister ==
    /\ Running /\ ctrlcPc = "spawned"
    /\ \E ok \in BOOLEAN :
         /\ ctrlcPc' = IF ok THEN "waiting" ELSE "panicked"
         /\ txAlive' = ok
    /\ UNCHANGED <<unitVars, dryRun, handleVars, ioVars, cfgVars, deployVars,
                   tunnelVars, mainPc, mainResult, mainErr, procState,
                   clusterVars, callLog, deleteLog, deleteFailed,
                   deleteReturned, chanLen, sendCalled, sigVars, pfVars,
                   sshVars, watchVars>>

\* main.rs:122-124  the interrupt arrived: warn, then call delete_pod
CtrlcSignal ==
    /\ Running /\ ctrlcPc = "waiting" /\ sigPending
    /\ deleteLog' = Append(deleteLog,
           [by |-> "ctrlc", afterWatch |-> watchResult # "none"])
    /\ ctrlcPc' = CtrlcAfterSignal
    /\ UNCHANGED <<unitVars, dryRun, handleVars, ioVars, cfgVars, deployVars,
                   tunnelVars, mainPc, mainResult, mainErr, procState,
                   clusterVars, callLog, deleteFailed, deleteReturned, chanVars,
                   sigVars, pfVars, sshVars, watchVars>>

\* main.rs:124-126  delete_pod returns; an error is only logged
CtrlcDeleteReturn ==
    /\ Running /\ ctrlcPc = "deleting"
    /\ \E ok \in BOOLEAN :
         /\ pod' = PodAfterDelete(ok)
         /\ deleteFailed' = IF ok THEN deleteFailed ELSE deleteFailed \cup {"ctrlc"}
         /\ deleteReturned' = deleteReturned \cup {"ctrlc"}
         /\ ctrlcPc' = CtrlcAfterDelete(ok)
         /\ txAlive' = (CtrlcAfterDelete(ok) # "done")
    /\ UNCHANGED <<unitVars, dryRun, handleVars, ioVars, cfgVars, deployVars,
                   tunnelVars, mainPc, mainResult, mainErr, procState, waitCond,
                   callLog, deleteLog, chanLen, sendCalled, sigVars, pfVars,
                   sshVars, watchVars>>

\* main.rs:127  tx.send(()).await.ok(): the message is buffered unless the
\* receiver is already gone (main returned), in which case the Err is ignored
CtrlcSend ==
    /\ Running /\ ctrlcPc = "sending"
    /\ chanLen < 1 \/ mainPc = "returned"
    /\ chanLen' = IF mainPc = "returned" THEN chanLen ELSE chanLen + 1
    /\ sendCalled' = TRUE
    /\ ctrlcPc' = "sent"
    /\ UNCHANGED <<unitVars, dryRun, handleVars, ioVars, cfgVars, deployVars,
                   tunnelVars, mainPc, mainResult, mainErr, procState,
                   clusterVars, callLog, deleteLog, deleteFailed,
                   deleteReturned, txAlive, sigVars, pfVars, sshVars,
                   watchVars>>

\* main.rs:128  the task's block ends and tx is dropped
CtrlcEnd ==
    /\ Running /\ ctrlcPc = "sent"
    /\ ctrlcPc' = "done"
    /\ txAlive' = FALSE
    /\ UNCHANGED <<unitVars, dryRun, handleVars, ioVars, cfgVars, deployVars,
                   tunnelVars, mainPc, mainResult, mainErr, procState,
                   clusterVars, callLog, deleteLog, deleteFailed,
                   deleteReturned, chanLen, sendCalled, sigVars, pfVars,
                   sshVars, watchVars>>

\* ------------------------------------------------------------ environment

\* the SIGINT listener exists from the first poll of ctrl_c() on
ListenerRegistered == ctrlcPc \in {"waiting", "deleting", "sending", "sent", "done"}

\* an OS interrupt: with the listener registered it is handed to the ctrl-c
\* task; without it the default action terminates the process at once.
\* ctrl_c() is polled once, so an interrupt after the one the listener took
\* is swallowed by the installed handler: it changes nothing and is not
\* counted
Interrupt ==
    /\ Running /\ interrupts < MaxInterrupts
    /\ interrupts' = (IF sigPending THEN interrupts ELSE interrupts + 1)
    /\ IF ListenerRegistered
       THEN /\ sigPending' = TRUE
            /\ UNCHANGED <<procState, ctrlcPc, pfTaskPc, stdoutTask, stderrTask,
                           listenerOpen>>
       ELSE /\ procState' = "killed"
            /\ CancelAllTasks
            /\ UNCHANGED sigPending
    /\ UNCHANGED <<unitVars, dryRun, handleVars, ioVars, cfgVars, deployVars,
                   pfAccepted, pfRelayed, mainPc, mainResult, mainErr,
                   clusterVars, callLog, deleteLog, deleteFailed,
                   deleteReturned, chanVars, listenerPort, pfLocalPort, sshVars,
                   watchPc, watchResult>>

\* the ssh subprocess terminates on its own or is killed from outside
SshExit ==
    /\ Running /\ sshState = "running"
    /\ sshState' = "exited"
    /\ \E st \in ExitStatuses : sshStatus' = st
    /\ UNCHANGED <<unitVars, dryRun, handleVars, ioVars, cfgVars, deployVars,
                   tunnelVars, mainPc, mainResult, mainErr, procState,
                   clusterVars, callLog, deleteLog, deleteFailed,
                   deleteReturned, chanVars, ctrlcPc, sigVars, pfVars,
                   sshArgPort, watchVars>>

\* ------------------------------------------------------ port-forward task

\* the port the OS binds for a request: the requested one, or any free
\* ephemeral port when the request is 0
BindPorts(requested) == IF requested = 0 THEN EphemeralPorts ELSE {requested}

\* k8s lib.rs:164-167  take_stream, then TcpListener::bind(..).await.unwrap()
PfBind ==
    /\ Running /\ pfTaskPc = "spawned"
    /\ \/ \E p \in BindPorts(RequestedLocalPort) :
            /\ listenerPort' = p
            /\ listenerOpen' = TRUE
            /\ pfTaskPc' = "accepting"
       \/ /\ pfTaskPc' = "panicked"
          /\ UNCHANGED <<listenerPort, listenerOpen>>
    /\ UNCHANGED <<unitVars, dryRun, handleVars, ioVars, cfgVars, deployVars,
                   pfAccepted, pfRelayed, mainPc, mainResult, mainErr,
                   procState, clusterVars, callLog, deleteLog, deleteFailed,
                   deleteReturned, chanVars, ctrlcPc, sigVars, pfLocalPort,
                   sshVars, watchVars>>

\* k8s lib.rs:169  listener.accept(): one connection, or an error that ends
\* the task (the listener is dropped with it)
PfAccept ==
    /\ Running /\ pfTaskPc = "accepting"
    /\ \E ok \in BOOLEAN :
         /\ pfTaskPc' = IF ok THEN "relaying" ELSE "done"
         /\ pfAccepted' = IF ok THEN pfAccepted + 1 ELSE pfAccepted
         /\ listenerOpen' = ok
    /\ UNCHANGED <<unitVars, dryRun, handleVars, ioVars, cfgVars, deployVars,
                   pfRelayed, mainPc, mainResult, mainErr, procState,
                   clusterVars, callLog, deleteLog, deleteFailed,
                   deleteReturned, chanVars, ctrlcPc, sigVars, listenerPort,
                   pfLocalPort, sshVars, watchVars>>

\* k8s lib.rs:170  copy_bidirectional moves a chunk between the two sides
PfRelay ==
    /\ Running /\ pfTaskPc = "relaying"
    /\ pfRelayed < MaxChunks
    /\ pfRelayed' = pfRelayed + 1
    /\ UNCHANGED <<unitVars, dryRun, handleVars, ioVars, cfgVars, deployVars,
                   listenerOpen, pfAccepted, mainPc, mainResult, mainErr,
                   procState, clusterVars, callLog, deleteLog, deleteFailed,
                   deleteReturned, chanVars, ctrlcPc, sigVars, pfVars, sshVars,
                   watchVars>>

\* k8s lib.rs:169-172  after the relay the closure ends: no second accept
PfAfterRelayMut == "accepting"
PfAfterRelay == "done"

\* k8s lib.rs:170-172  copy_bidirectional ends (a side closed or failed; the
\* result is discarded); the task ends and drops the listener
PfRelayEnd ==
    /\ Running /\ pfTaskPc = "relaying"
    /\ pfTaskPc' = PfAfterRelay
    /\ listenerOpen' = (PfAfterRelay # "done")
    /\ UNCHANGED <<unitVars, dryRun, handleVars, ioVars, cfgVars, deployVars,
                   pfAccepted, pfRelayed, mainPc, mainResult, mainErr,
                   procState, clusterVars, callLog, deleteLog, deleteFailed,
                   deleteReturned, chanVars, ctrlcPc, sigVars, listenerPort,
                   pfLocalPort, sshVars, watchVars>>

\* ------------------------------------------------------------ drain tasks

TaskOf(s) == IF s = "stdout" THEN stdoutTask ELSE stderrTask

\* lines the subprocess has written, both streams
LinesOut == written["stdout"] + written["stderr"]

\* the subprocess writes one more line to one of its streams
SshWrite ==
    /\ Running /\ sshState = "running"
    /\ LinesOut < MaxLines
    /\ \E s \in Streams :
         /\ pipe' = [pipe EXCEPT ![s] = @ + 1]
         /\ written' = [written EXCEPT ![s] = @ + 1]
    /\ UNCHANGED <<unitVars, dryRun, handleVars, logged, sinkLevels, cfgVars,
                   deployVars, tunnelVars, mainPc, mainResult, mainErr,
                   procState, clusterVars, callLog, deleteLog, deleteFailed,
                   deleteReturned, chanVars, ctrlcPc, sigVars, pfVars, sshVars,
                   watchVars>>

\* ssh lib.rs:70-74 / 76-80  one turn of a drain loop: next_line() takes the
\* next line and yields it, and it is logged, or yields an Err, and the loop
\* ends without logging it
DrainRead(s) ==
    /\ Running /\ TaskOf(s) = "running"
    /\ pipe[s] > 0
    /\ pipe' = [pipe EXCEPT ![s] = @ - 1]
    /\ \E outcome \in ReadOutcomes :
         IF LoopContinues(outcome)
         THEN /\ logged' = [logged EXCEPT ![s] = @ + 1]
              /\ sinkLevels' = sinkLevels \cup {<<s, LogLevel(s)>>}
              /\ UNCHANGED <<stdoutTask, stderrTask>>
         ELSE /\ stdoutTask' = IF s = "stdout" THEN "done" ELSE stdoutTask
              /\ stderrTask' = IF s = "stderr" THEN "done" ELSE stderrTask
              /\ UNCHANGED <<logged, sinkLevels>>
    /\ UNCHANGED <<unitVars, dryRun, handleVars, written, cfgVars, deployVars,
                   tunnelVars, mainPc, mainResult, mainErr, procState,
                   clusterVars, callLog, deleteLog, deleteFailed,
                   deleteReturned, chanVars, ctrlcPc, sigVars, pfVars, sshVars,
                   watchPc, watchResult>>

\* ssh lib.rs:70-74 / 76-80  next_line() yields Ok(None): the subprocess has
\* exited and everything it wrote was read; the loop and the task end
DrainEof(s) ==
    /\ Running /\ TaskOf(s) = "running"
    /\ pipe[s] = 0 /\ sshState = "exited"
    /\ stdoutTask' = IF s = "stdout" THEN "done" ELSE stdoutTask
    /\ stderrTask' = IF s = "stderr" THEN "done" ELSE stderrTask
    /\ UNCHANGED <<unitVars, dryRun, handleVars, ioVars, cfgVars, deployVars,
                   tunnelVars, mainPc, mainResult, mainErr, procState,
                   clusterVars, callLog, deleteLog, deleteFailed,
                   deleteReturned, chanVars, ctrlcPc, sigVars, pfVars, sshVars,
                   watchPc, watchResult>>

\* ssh lib.rs:70-74  the stdout drain task
DrainStdoutRead == DrainRead("stdout")
DrainStdoutEnd == DrainEof("stdout")

\* ssh lib.rs:76-80  the stderr drain task
DrainStderrRead == DrainRead("stderr")
DrainStderrEnd == DrainEof("stderr")

\* ------------------------------------------------------------ specification

Next ==
    \/ LoadConfig \/ InitLogging \/ ExpandPaths \/ DryRunCheck \/ K8sNew
    \/ DeployPod \/ WaitForPodReady \/ SpawnCtrlc
    \/ PortForward \/ StartSocksProxy \/ EnterSelect
    \/ WatchStart \/ WatchChildExited \/ WatchJoinStdout \/ WatchReturn
    \/ SelectRecv \/ FinalCleanup \/ MainDeleteReturn \/ ProcessExit
    \/ CtrlcRegister \/ CtrlcSignal \/ CtrlcDeleteReturn \/ CtrlcSend \/ CtrlcEnd
    \/ Interrupt \/ SshExit
    \/ PfBind \/ PfAccept \/ PfRelay \/ PfRelayEnd
    \/ SshWrite \/ DrainStdoutRead \/ DrainStderrRead
    \/ DrainStdoutEnd \/ DrainStderrEnd

Spec == Init /\ [][Next]_vars

\* the steps of the main task (main.rs:60-160, the watch future it polls in
\* the select included) and the exit of the process once main returned
MainNext ==
    \/ LoadConfig \/ InitLogging \/ ExpandPaths \/ DryRunCheck \/ K8sNew
    \/ DeployPod \/ WaitForPodReady \/ SpawnCtrlc
    \/ PortForward \/ StartSocksProxy \/ EnterSelect
    \/ WatchStart \/ WatchChildExited \/ WatchJoinStdout \/ WatchReturn
    \/ SelectRecv \/ FinalCleanup \/ MainDeleteReturn \/ ProcessExit

\* the steps of the ctrl-c task (main.rs:121-128)
CtrlcNext ==
    CtrlcRegister \/ CtrlcSignal \/ CtrlcDeleteReturn \/ CtrlcSend \/ CtrlcEnd

\* the runtime keeps polling a task that can advance, and every call the two
\* tasks make returns; nothing is assumed about the subprocess, the tunnel
\* task, the drain tasks or the arrival of interrupts
FairSpec == Spec /\ WF_vars(MainNext) /\ WF_vars(CtrlcNext)

TypeOK ==
    /\ dryRun \in BOOLEAN
    /\ mainResult \in {"none", "Ok", "Err"}
    /\ procState \in {"running", "exited", "killed", "panicked"}
    /\ deleteFailed \subseteq deleteReturned
    /\ pod \in {"absent", "present", "deleted"}
    /\ chanLen \in 0..1
    /\ txAlive \in BOOLEAN
    /\ interrupts \in 0..MaxInterrupts
    /\ Len(deleteLog) <= 2
    /\ listenerPort \in {0} \cup EphemeralPorts
    /\ pfLocalPort \in {-1, 0} \cup EphemeralPorts
    /\ watchResult \in {"none", "Ok", "UnexpectedExit"}

\* ------------------------------------------------------- config layering

\* traits config/mod.rs:38-75  the fields of Config, all Option<_> and all
\* merged with the same strategy; listed with the three kinds first: unset
\* by default, set by default, not settable from the command line
ConfigFieldNames ==
    <<"context", "namespace", "pod_resources", "kubeconfig",
      "ssh_public_key_path", "ssh_username", "local_socks_port",
      "pod_ttl_seconds", "pod_image", "pod_labels", "pod_annotations",
      "log_level">>

ConfigFields == {ConfigFieldNames[i] : i \in 1..MaxFields}

\* main.rs:75-77  the fields cli_config always leaves None
CliUnset == {"pod_resources", "pod_labels", "pod_annotations"}

\* a layer whose present values all carry the layer's tag
Layers(tag) == [ConfigFields -> {None, Some(tag)}]

\* traits config/mod.rs:77-97  Config::default(): everything but context
ConfigDefault ==
    [f \in ConfigFields |-> IF f = "context" THEN None ELSE Some("default")]

\* traits config/mod.rs:9-13  overwrite_if_some: *left = right when right is
\* Some; returns the new value of left
OverwriteIfSomeMut(left, right) == right
OverwriteIfSome(left, right) == IF right # None THEN right ELSE left

\* traits config/mod.rs:36-75  #[derive(Merge)]: the strategy, field by field
Merge(left, right) ==
    [f \in ConfigFields |-> OverwriteIfSome(left[f], right[f])]

\* the layers a merge can meet: any base (Config::default() among them), any
\* file layer, any command line
InitMerge ==
    /\ InitMain /\ ManifestIdle /\ NameIdle
    /\ baseConfig \in Layers("default")
    /\ fileConfig \in Layers("file")
    /\ cliConfig \in {c \in Layers("cli") :
                        \A f \in ConfigFields \cap CliUnset : c[f] = None}
    /\ config = baseConfig
    /\ mergePc = "defaults"

\* main.rs:81  config.merge(file_config)
MergeFile ==
    /\ mergePc = "defaults"
    /\ config' = Merge(config, fileConfig)
    /\ mergePc' = "file_merged"
    /\ UNCHANGED <<mainVars, baseConfig, fileConfig, cliConfig, manifestVars,
                   nameVars>>

\* main.rs:82  config.merge(cli_config)
MergeCli ==
    /\ mergePc = "file_merged"
    /\ config' = Merge(config, cliConfig)
    /\ mergePc' = "cli_merged"
    /\ UNCHANGED <<mainVars, baseConfig, fileConfig, cliConfig, manifestVars,
                   nameVars>>

NextMerge == MergeFile \/ MergeCli

SpecMerge == InitMerge /\ [][NextMerge]_vars

\* ------------------------------------------------------- build_pod_manifest

\* keys a pod_labels map may hold
LabelKeyNames == <<"app", "env", "team", "tier">>
LabelKeys == {LabelKeyNames[i] : i \in 1..MaxLabels}
AnnotationKeys == {"note"}

\* HashMap<String, String> with keys among K: a finite map
Maps(K) == UNION {[D -> {"v"}] : D \in SUBSET K}

\* pod_ttl_seconds values tried (3600 is the one of test_build_pod_manifest)
TtlValues == {0, 9, 10, 900, 3600}

\* traits config/mod.rs:25-34  PodResources: cpu and memory, each optional
PodResourcesValues == [cpu : {None, Some("50m")}, memory : {None, Some("64Mi")}]

\* the Config fields build_pod_manifest reads, with the values the merged
\* configuration of main can hold: every one of them is Some in
\* Config::default() and no layer can unset it; a file's pod_resources object
\* replaces the default one and may leave out cpu or memory
ManifestConfigs ==
    [namespace        : {Some("default"), Some("dev")},
     pod_labels       : {Some(m) : m \in Maps(LabelKeys)},
     pod_annotations  : {Some(m) : m \in Maps(AnnotationKeys)},
     pod_image        : {Some("linuxserver/openssh-server:latest"),
                         Some("test-image:1.2.3")},
     pod_ttl_seconds  : {Some(t) : t \in TtlValues},
     pod_resources    : {Some(r) : r \in PodResourcesValues}]

\* the orders in which the elements of a set can be visited
Perms(S) ==
    {q \in [1..Cardinality(S) -> S] :
        \A i, j \in 1..Cardinality(S) : q[i] = q[j] => i = j}

\* HashMap::into_iter: the entries of the map, in an order the caller cannot
\* choose; of an absent map, nothing
HashMapIter(opt) ==
    IF opt = None THEN {<<>>}
    ELSE {[i \in 1..Len(q) |-> <<q[i], opt[1][q[i]]>>] : q \in Perms(DOMAIN opt[1])}

\* BTreeMap::insert
MapInsert(m, k, v) ==
    [x \in (DOMAIN m) \cup {k} |-> IF x = k THEN v ELSE m[x]]

\* BTreeMap::from_iter: the pairs inserted one after the other
RECURSIVE BTreeMapFromIter(_)
BTreeMapFromIter(pairs) ==
    IF pairs = <<>> THEN <<>>
    ELSE MapInsert(BTreeMapFromIter(SubSeq(pairs, 1, Len(pairs) - 1)),
                   pairs[Len(pairs)][1], pairs[Len(pairs)][2])

\* k8s lib.rs:76-77, 101-108  .map(BTreeMap::from_iter) / .collect() into the
\* BTreeMap fields of ObjectMeta and ResourceRequirements
CollectMapMut(pairs) == pairs
CollectMap(pairs) == BTreeMapFromIter(pairs)

\* k8s lib.rs:92  the value of unwrap_or
DefaultTtlSeconds == 900

\* Option::unwrap_or
UnwrapOr(opt, d) == IF opt = None THEN d ELSE opt[1]

\* k8s lib.rs:92  cfg.pod_ttl_seconds.unwrap_or(900)
TtlSecondsMut(cfg) == DefaultTtlSeconds
TtlSeconds(cfg) == UnwrapOr(cfg.pod_ttl_seconds, DefaultTtlSeconds)

DigitChars == <<"0", "1", "2", "3", "4", "5", "6", "7", "8", "9">>

\* format!("{}", n) of a u64: its decimal digits, most significant first
RECURSIVE FormatU64(_)
FormatU64(n) ==
    IF n < 10 THEN <<DigitChars[n + 1]>>
    ELSE FormatU64(n \div 10) \o <<DigitChars[(n % 10) + 1]>>

\* k8s lib.rs:88-93  the shell script, as pieces of text: everything before
\* the sleep, "sleep ", the digits of the ttl, the rest
ScriptHead ==
    "echo \"$SSH_PUBLIC_KEY\" | base64 -d > /tmp/authorized_keys && /usr/sbin/sshd -D -o 'AuthorizedKeysFile /tmp/authorized_keys' & PID=$! && "
ScriptTail == " && kill $PID"
StartupScript(ttl) == <<ScriptHead, "sleep ">> \o FormatU64(ttl) \o <<ScriptTail>>

\* k8s lib.rs:103-104  r.cpu.clone().unwrap(), r.memory.clone().unwrap():
\* unwrap of None panics
UnwrapPanics(cfg) ==
    /\ cfg.pod_resources # None
    /\ \/ cfg.pod_resources[1].cpu = None
       \/ cfg.pod_resources[1].memory = None

\* k8s lib.rs:70-117  build_pod_manifest: the Pod it returns as Some(pod),
\* None when it panics instead of returning
BuildPodManifest(cfg, name, key, labelIter, annotationIter) ==
    IF UnwrapPanics(cfg) THEN None
    ELSE Some(
      [name              |-> Some(name),
       namespace         |-> cfg.namespace,
       labels            |-> IF cfg.pod_labels = None THEN None
                             ELSE Some(CollectMap(labelIter)),
       annotations       |-> IF cfg.pod_annotations = None THEN None
                             ELSE Some(CollectMap(annotationIter)),
       container         |-> "sshd",
       image             |-> cfg.pod_image,
       image_pull_policy |-> Some("IfNotPresent"),
       command           |-> <<"/bin/sh", "-c", StartupScript(TtlSeconds(cfg))>>,
       env               |-> <<[name |-> "SSH_PUBLIC_KEY", value |-> Some(key)]>>,
       resources         |-> IF cfg.pod_resources = None THEN None
                             ELSE Some([requests |-> CollectMap(
                                    <<<<"cpu", cfg.pod_resources[1].cpu[1]>>,
                                      <<"memory", cfg.pod_resources[1].memory[1]>>>>)])])

InitManifest ==
    /\ InitMain /\ MergeIdle /\ NameIdle
    /\ mConfig \in ManifestConfigs
    /\ mName \in {"k8socks-test123", "k8socks-0a1b2c"}
    /\ mKey \in {"c3NoLXJzYQ==", "c3NoLWVkMjU1MTk="}
    /\ built = <<>>

\* one call of build_pod_manifest with the inputs; only the order in which
\* the two HashMaps hand out their entries is the call's own
Call ==
    \E li \in HashMapIter(mConfig.pod_labels),
       ai \in HashMapIter(mConfig.pod_annotations) :
        built' = Append(built,
                   [labelIter |-> li, annotationIter |-> ai,
                    result |-> BuildPodManifest(mConfig, mName, mKey, li, ai)])

\* k8s lib.rs:141  the call deploy_pod makes
BuildManifest ==
    /\ Len(built) = 0
    /\ Call
    /\ UNCHANGED <<mainVars, mergeVars, mConfig, mName, mKey, nameVars>>

\* a second call with the same configuration, name and key
BuildManifestAgain ==
    /\ Len(built) = 1
    /\ Call
    /\ UNCHANGED <<mainVars, mergeVars, mConfig, mName, mKey, nameVars>>

NextManifest == BuildManifest \/ BuildManifestAgain

SpecManifest == InitManifest /\ [][NextManifest]_vars

\* ------------------------------------------------------- generate_pod_name

\* k8s lib.rs:66  (0..6): the number of draws
NameHexDigits == 6

\* k8s lib.rs:66  rng.gen_range(0..16): the values are 0..15
RandomBound == 16

\* what the random source may yield at the n-th draw
DrawValues(n) ==
    IF n <= MaxFreeDraws THEN 0..(RandomBound - 1) ELSE {0, RandomBound - 1}

LowerHexChars ==
    <<"0", "1", "2", "3", "4", "5", "6", "7", "8", "9",
      "a", "b", "c", "d", "e", "f">>
UpperHexChars ==
    <<"0", "1", "2", "3", "4", "5", "6", "7", "8", "9",
      "A", "B", "C", "D", "E", "F">>

\* format!("{:X}", n)
RECURSIVE FormatUpperHex(_)
FormatUpperHex(n) ==
    IF n < 16 THEN <<UpperHexChars[n + 1]>>
    ELSE FormatUpperHex(n \div 16) \o <<UpperHexChars[(n % 16) + 1]>>

\* k8s lib.rs:66  format!("{:x}", n): the hexadecimal digits of n, lowercase,
\* most significant first
RECURSIVE FormatLowerHex(_)
FormatLowerHexMut(n) == FormatUpperHex(n)
FormatLowerHex(n) ==
    IF n < 16 THEN <<LowerHexChars[n + 1]>>
    ELSE FormatLowerHex(n \div 16) \o <<LowerHexChars[(n % 16) + 1]>>

\* k8s lib.rs:67  the text before {} in format!("k8socks-{}", random_hex)
NamePrefix == <<"k", "8", "s", "o", "c", "k", "s", "-">>

\* k8s lib.rs:66  one turn of the map: a value is drawn, formatted and
\* collected into random_hex
DrawHexDigit ==
    /\ draws < NameHexDigits /\ podName = <<>>
    /\ \E d \in DrawValues(draws + 1) :
         randomHex' = randomHex \o FormatLowerHex(d)
    /\ draws' = draws + 1
    /\ UNCHANGED <<mainVars, mergeVars, manifestVars, podName>>

\* k8s lib.rs:67  format!("k8socks-{}", random_hex) is returned
FormatName ==
    /\ draws = NameHexDigits /\ podName = <<>>
    /\ podName' = NamePrefix \o randomHex
    /\ UNCHANGED <<mainVars, mergeVars, manifestVars, draws, randomHex>>

NextName == DrawHexDigit \/ FormatName

SpecName == Init /\ [][NextName]_vars

\* ------------------------------------------------------------ observations

\* exit code of the process: main's Result through Rust's Termination, or
\* death by the default SIGINT action, or a panic of the main thread
ExitCode ==
    IF procState = "killed" THEN 130
    ELSE IF procState = "panicked" THEN 101
    ELSE IF mainResult = "Ok" THEN 0 ELSE 1

DeleteCalls == Len(deleteLog)
DeletesBy(who) == {i \in 1..Len(deleteLog) : deleteLog[i].by = who}
Exited == procState = "exited"

\* ------------------------------------------------------------ claims

\* C1: when the interrupt and the subprocess's exit race (the ctrl-c task got
\* the interrupt and watch completed in the select), exactly one delete_pod
\* call has been issued by the time the process exits.
C1_ExactlyOneDeleteInRace ==
    (Exited /\ sigPending /\ watchResult # "none") => DeleteCalls = 1

\* C2: when only the interrupt fires and the subprocess keeps running, the
\* main task, woken by the completion signal, issues no delete_pod of its own.
C2_NoSecondDeleteAfterSignal ==
    (sigPending /\ sshState = "running" /\ watchPc = "dropped")
        => DeletesBy("main") = {}

C4_DeleteAfterTunnelOrSpawnFailure ==
    (Exited /\ mainErr \in {"port_forward", "start_socks_proxy"})
        => DeleteCalls >= 1

\* C5: if deploy_pod succeeded and the readiness wait timed out, a delete_pod
\* call has been issued by the time the process exits.
C5_DeleteAfterReadinessTimeout ==
    (Exited /\ mainErr = "wait_for_pod_ready" /\ waitCond = "timeout")
        => DeleteCalls >= 1

\* C6: the process exits with a non-zero code whenever deploy, the readiness
\* wait or the proxy failed, watch returning UnexpectedExit included.
C6_FailureExitsNonZero ==
    (Exited /\ (mainErr # "none" \/ watchResult = "UnexpectedExit"))
        => ExitCode # 0

\* C7: a delete_pod that fails during cleanup is logged, not propagated: the
\* ctrl-c task goes on to send the completion signal, main still returns
\* Ok(()), and no process result ever carries a delete_pod error.
C7_DeleteFailureNotPropagated ==
    /\ ("ctrlc" \in deleteFailed /\ Running)
         => /\ ctrlcPc \in {"sending", "sent", "done"}
            /\ (ctrlcPc = "sending" => ENABLED CtrlcSend)
            /\ (ctrlcPc \in {"sent", "done"} => sendCalled)
    /\ "main" \in deleteFailed => (mainPc = "returned" /\ mainResult = "Ok")
    /\ mainErr # "delete_pod"

C7_Witness ==
    /\ Exited /\ deleteFailed = {"ctrlc", "main"}
    /\ ctrlcPc = "done" /\ sendCalled /\ mainResult = "Ok"

\* C8: with requested local port 0, the handle's local_port is the port the
\* listener is bound to (non-zero), and that port is what ssh is given.
C8_HandleReportsBoundPort ==
    /\ pfLocalPort # -1 => pfLocalPort # 0
    /\ (sshArgPort # -1 /\ listenerPort # 0) => sshArgPort = listenerPort

\* C9: the tunnel's listener is bound before the ssh subprocess is spawned.
C9_BoundBeforeSpawn ==
    sshState # "none" => listenerPort # 0

\* C10: start_socks_proxy is called only after deploy_pod, wait_for_pod_ready
\* and port_forward returned success in that order, and watch only after
\* start_socks_proxy succeeded.
C10_DataFlowOrder ==
    /\ \A i \in 1..Len(callLog) :
         /\ callLog[i].op = "start_socks_proxy" =>
              \E a, b, c \in 1..(i - 1) :
                 /\ a < b /\ b < c
                 /\ callLog[a] = [op |-> "deploy_pod", ok |-> TRUE]
                 /\ callLog[b] = [op |-> "wait_for_pod_ready", ok |-> TRUE]
                 /\ callLog[c] = [op |-> "port_forward", ok |-> TRUE]
         /\ callLog[i].op = "watch" =>
              \E j \in 1..(i - 1) :
                 callLog[j] = [op |-> "start_socks_proxy", ok |-> TRUE]
    /\ sshState # "none" =>
         /\ pod # "absent" /\ waitCond \in {"running", "error"} /\ pfLocalPort # -1
         /\ \E i \in 1..Len(callLog) : callLog[i].op = "start_socks_proxy"
    /\ watchPc # "none" => sshState # "none"

C10_Witness ==
    /\ watchPc = "wait_child" /\ sshState = "running"
    /\ callLog[Len(callLog)].op = "watch"

\* C15: if the public key file cannot be read, deploy_pod fails with the
\* credential error, no create request is submitted and no workload exists.
C15_NoCreateWithoutKey ==
    keyRead = "failed" =>
        /\ createRequests = 0
        /\ pod = "absent"
        /\ callLog[Len(callLog)] = [op |-> "deploy_pod", ok |-> FALSE]
        /\ mainErr = "deploy_pod" /\ mainResult = "Err"

C15_Witness ==
    Exited /\ keyRead = "failed" /\ mainErr = "deploy_pod" /\ createRequests = 0

PfHandleDropped == pfLocalPort # -1 /\ mainPc = "returned"

\* C11: the tunnel task accepts at most one connection, relays only on that
\* connection, and once it has ended its listener is gone, so nothing more is
\* accepted.
C11_SingleUseTunnel ==
    /\ pfAccepted <= 1
    /\ pfTaskPc = "relaying" => (pfAccepted = 1 /\ listenerOpen)
    /\ pfRelayed > 0 => pfAccepted = 1
    /\ pfTaskPc \in {"done", "panicked", "cancelled"} => ~listenerOpen
    /\ ~listenerOpen => ~ENABLED PfAccept

C11_Witness ==
    /\ Running /\ pfTaskPc = "done" /\ pfAccepted = 1 /\ pfRelayed = MaxChunks
    /\ ~listenerOpen

\* C12: once the PortForwardHandle has been dropped, the tunnel task accepts
\* no connection and relays nothing more.
C12_TaskStopsOnHandleDrop ==
    [][PfHandleDropped => (pfAccepted' = pfAccepted /\ pfRelayed' = pfRelayed)]_vars

\* C13: if the local listener cannot be bound, port_forward hands its caller
\* a failure instead of a handle.
C13_BindFailureReturned ==
    pfTaskPc = "panicked" => pfLocalPort = -1

\* C14: wait_for_pod_ready returns success only if the running condition was
\* observed within the timeout.
C14_ReadyOrFail ==
    (\E i \in 1..Len(callLog) :
        callLog[i] = [op |-> "wait_for_pod_ready", ok |-> TRUE])
        => waitCond = "running"

C18_NoLineLost ==
    watchResult # "none" => \A s \in Streams : logged[s] = written[s]

C20_DropSendsTermination ==
    sshHandle = "dropped" => killRequested

\* the watch future exists and has neither returned nor been dropped
WatchPending == watchPc \in {"created", "wait_child", "join_stdout", "join_stderr"}

\* C21: while the interrupt path's delete_pod is in flight and main is in the
\* select, the watch future is still pending and the receive branch cannot
\* complete; the completion signal is sent only after that delete_pod call
\* has returned; and once an interrupt was taken by the listener the process
\* terminates, whether or not the subprocess ever exits.
C21_WatchPendingThenExit ==
    /\ []((Running /\ mainPc = "select" /\ ctrlcPc = "deleting")
            => (WatchPending /\ ~ENABLED SelectRecv))
    /\ [](sendCalled => "ctrlc" \in deleteReturned)
    /\ (sigPending ~> ~Running)

C21_Witness ==
    /\ Exited /\ sigPending /\ sendCalled /\ "ctrlc" \in deleteReturned
    /\ watchPc = "dropped" /\ sshState = "running"

\* C27: once main has reached the select, at least one delete_pod call has
\* been issued by the time main returns.
C27_DeleteOnceSelectReached ==
    (mainPc = "returned" /\ watchPc # "none") => DeleteCalls >= 1

C27_Witness ==
    /\ Exited /\ watchPc = "dropped" /\ ctrlcPc = "panicked" /\ ~sendCalled
    /\ DeletesBy("main") # {} /\ DeletesBy("ctrlc") = {}

\* C28: if an interrupt arrived after the workload was created, a delete_pod
\* call has been issued by the time the process has ended.
C28_InterruptLeadsToDelete ==
    (~Running /\ interrupts > 0 /\ pod # "absent") => DeleteCalls >= 1

\* C29: once the interrupt path has issued delete_pod, main calls neither
\* port_forward nor start_socks_proxy.
C29_NoUseAfterInterruptDelete ==
    [][DeletesBy("ctrlc") # {} =>
         ~(/\ Len(callLog') > Len(callLog)
           /\ callLog'[Len(callLog')].op \in {"port_forward", "start_socks_proxy"})]_vars

\* no cluster client, no workload created or deleted, no tunnel, no interrupt
\* handler, no subprocess
NoRemoteOrProcessOp ==
    /\ \A i \in 1..Len(callLog) : callLog[i].op \in {"load_config", "init_logging"}
    /\ createRequests = 0 /\ pod = "absent" /\ deleteLog = <<>>
    /\ pfTaskPc = "unspawned" /\ pfLocalPort = -1 /\ ~listenerOpen
    /\ ctrlcPc = "unspawned" /\ ~txAlive
    /\ sshState = "none" /\ sshHandle = "none" /\ watchPc = "none"

\* C30 as stated: with --dry-run, whenever main has returned it has returned
\* success, and no remote or process operation was performed.
C30_DryRunReturnsSuccess ==
    dryRun => /\ NoRemoteOrProcessOp
              /\ mainPc = "returned" => mainResult = "Ok"

\* C30 amended: with --dry-run no remote or process operation is performed,
\* main never goes past the dry-run check, and once the configuration was
\* loaded, logging initialised and the paths expanded it returns success.
C30_DryRunNoOps ==
    dryRun =>
        /\ NoRemoteOrProcessOp
        /\ mainPc \in {"load_config", "init_logging", "expand_paths",
                       "dry_run_check", "returned"}
        /\ (mainPc = "returned" /\ Len(callLog) = 2 /\ callLog[2].ok)
             => (mainResult = "Ok" /\ mainErr = "none")

C30_Witness ==
    /\ Exited /\ dryRun /\ mainResult = "Ok" /\ ExitCode = 0
    /\ callLog = <<[op |-> "load_config", ok |-> TRUE],
                   [op |-> "init_logging", ok |-> TRUE]>>

\* C22: merging is field-wise right-biased: after the file layer is merged
\* every field holds the file's value if the file sets it and the base's
\* otherwise (so an all-absent layer changes nothing and a fully populated
\* one replaces everything), and after the command line is merged every field
\* comes from the last of base, file, command line that sets it.
C22_MergeRightBiased ==
    /\ mergePc = "file_merged" =>
         /\ \A f \in ConfigFields :
              config[f] = (IF fileConfig[f] = None THEN baseConfig[f]
                           ELSE fileConfig[f])
         /\ (\A f \in ConfigFields : fileConfig[f] = None) => config = baseConfig
         /\ (\A f \in ConfigFields : fileConfig[f] # None) => config = fileConfig
    /\ mergePc = "cli_merged" =>
         \A f \in ConfigFields :
            config[f] = (IF cliConfig[f] # None THEN cliConfig[f]
                         ELSE IF fileConfig[f] # None THEN fileConfig[f]
                         ELSE baseConfig[f])

C22_Witness ==
    /\ mergePc = "cli_merged" /\ baseConfig = ConfigDefault
    /\ config["context"] = Some("file")
    /\ config["namespace"] = Some("cli")
    /\ config["pod_resources"] = Some("default")
    /\ fileConfig["namespace"] = Some("file")

\* C23: two calls of build_pod_manifest with the same configuration, name and
\* key give the same result, whatever order the label and annotation maps
\* hand out their entries in.
C23_ManifestDeterministic ==
    Len(built) = 2 => built[1].result = built[2].result

C23_Witness ==
    /\ Len(built) = 2 /\ built[1].result # None
    /\ Len(built[1].labelIter) = 2
    /\ built[1].labelIter # built[2].labelIter

DigitValue(c) == CHOOSE d \in 0..9 : DigitChars[d + 1] = c

\* the number a run of decimal digits denotes
RECURSIVE ParseU64(_)
ParseU64(digits) ==
    IF digits = <<>> THEN 0
    ELSE 10 * ParseU64(SubSeq(digits, 1, Len(digits) - 1))
         + DigitValue(digits[Len(digits)])

\* the script holds "sleep " followed by digits that denote n and then by
\* the kill
SleepsFor(script, n) ==
    \E j \in 1..(Len(script) - 2) :
        /\ script[j] = "sleep "
        /\ script[Len(script)] = ScriptTail
        /\ \A k \in (j + 1)..(Len(script) - 1) :
              \E d \in 1..10 : DigitChars[d] = script[k]
        /\ ParseU64(SubSeq(script, j + 1, Len(script) - 1)) = n

\* C24: a manifest built from a configuration whose ttl is set sleeps for
\* exactly that many seconds before the kill, and carries the given name,
\* the configured image and the given credential in SSH_PUBLIC_KEY.
C24_SleepsForTtl ==
    \A i \in 1..Len(built) :
        built[i].result # None =>
            /\ mConfig.pod_ttl_seconds # None =>
                 SleepsFor(built[i].result[1].command[3], mConfig.pod_ttl_seconds[1])
            /\ built[i].result[1].name = Some(mName)
            /\ built[i].result[1].image = mConfig.pod_image
            /\ built[i].result[1].env =
                 <<[name |-> "SSH_PUBLIC_KEY", value |-> Some(mKey)]>>

C24_Witness ==
    /\ Len(built) = 1 /\ built[1].result # None
    /\ mConfig.pod_ttl_seconds = Some(3600)
    /\ SubSeq(built[1].result[1].command[3], 2, 6) = <<"sleep ", "3", "6", "0", "0">>
    /\ mConfig.pod_image = Some("test-image:1.2.3")

\* the requests of a manifest are the configured cpu and memory, each present
\* exactly when it is configured
RequestsCopied(requests, r) ==
    /\ ("cpu" \in DOMAIN requests) <=> (r.cpu # None)
    /\ ("memory" \in DOMAIN requests) <=> (r.memory # None)
    /\ r.cpu # None => Some(requests["cpu"]) = r.cpu
    /\ r.memory # None => Some(requests["memory"]) = r.memory

\* C26: every call of build_pod_manifest returns a manifest, and in it the
\* labels, the annotations and the resource requests are the configured ones
\* when configured and absent when not, for every combination of present and
\* absent cpu and memory.
C26_CopiedAndAlwaysReturns ==
    \A i \in 1..Len(built) :
        /\ built[i].result # None
        /\ built[i].result[1].labels = mConfig.pod_labels
        /\ built[i].result[1].annotations = mConfig.pod_annotations
        /\ (mConfig.pod_resources = None) <=> (built[i].result[1].resources = None)
        /\ mConfig.pod_resources # None =>
             RequestsCopied(built[i].result[1].resources[1].requests,
                            mConfig.pod_resources[1])

\* C25: a name returned by generate_pod_name is "k8socks-" followed by exactly
\* six characters, each one of 0-9 a-f.
C25_NameShape ==
    podName # <<>> =>
        /\ Len(podName) = 14
        /\ SubSeq(podName, 1, 8) = <<"k", "8", "s", "o", "c", "k", "s", "-">>
        /\ \A i \in 9..14 :
             podName[i] \in {"0", "1", "2", "3", "4", "5", "6", "7", "8", "9",
                             "a", "b", "c", "d", "e", "f"}

C25_Witness ==
    podName = <<"k", "8", "s", "o", "c", "k", "s", "-",
                "a", "9", "f", "0", "0", "f">>

====
